---- MODULE Spec2Model ----
(***************************************************************************)
(* The browser data-transfer orchestrator: DataTransferService over the    *)
(* IndexedDB store DataTransferDatabase.                                   *)
(*                                                                         *)
(* JavaScript runs one task at a time; a task gives up control at every    *)
(* await of a store operation, a network call or a timer.  An action below *)
(* is the code a task runs from one await to a later one.  A store         *)
(* operation takes effect at one instant and its continuation runs right   *)
(* after; nothing bounds how long a request waits, so the continuations of *)
(* different tasks run in any order.  updateSession is two operations: it  *)
(* reads the whole record when it is called, and writes the whole merged   *)
(* record back in a later step, after whatever other tasks ran in between. *)
(***************************************************************************)
EXTENDS Integers, Sequences, FiniteSets, Bags, TLC

\* ------------------------------------------------------------------------
\* Program constants
MAX_CONCURRENT_CHUNKS == 3
MAX_RETRIES == 3

\* Bounds of the model
PageSize == 2
MaxItems == 5
MaxChunks == 4
MaxSessions == 2
MaxStarts == 2
MaxPauses == 1
MaxFailures == 1
FewChunks == 2
MaxRepeats == 2

Null == -1

VARIABLES
  sessions,            \* store transferSessions, in key (creation) order
  chunks,              \* store dataChunks, in creation order
  session,             \* DataTransferService.session (cached copy)
  pauseRequested,
  retryCount,
  pendingChunks,       \* the in-flight set of chunk ids
  activeDownload,      \* TRUE when an AbortController is held
  downloadQueue,       \* queued skip offsets (top is the session's chunkSize)
  processingQueue,
  chunkProcessors,
  isProcessingPaused,
  fetchTask,           \* the processDownloadQueue loop and its fetchData call
  chunkTask,           \* per chunk: its processChunk call
  tasks,               \* bag of the other asynchronous calls in progress
  chunkTimers,         \* chunk ids with a retry setTimeout pending
  fetchTimers,         \* bag of skips with a fetch-retry setTimeout pending
  srcTotal,            \* number of items the source holds
  onComplete,          \* TRUE when an onComplete handler is registered
  budget,              \* calls and failures the environment may still issue,
                       \* and the dispatch rounds that may overlap
  reads,               \* bag of the skips of the source reads served so far
  pausedAt,            \* processedItems of the record the last pause wrote
  resumed,             \* TRUE from an accepted resume to the next source read
  fails,               \* per chunk: the uploads of it that have failed
  justPaused,          \* TRUE in the state in which a pauseTransfer returned
  fetching,            \* the calls of fetchData that have not returned
  notified,            \* bag of the session ids passed to events.onComplete
  adopted              \* from init's adoption of an active session to the
                       \* next source read or call: its processedItems

vars == << sessions, chunks, session, pauseRequested, retryCount, pendingChunks,
           activeDownload, downloadQueue, processingQueue, chunkProcessors,
           isProcessingPaused, fetchTask, chunkTask, tasks, chunkTimers,
           fetchTimers, srcTotal, onComplete, budget, reads, pausedAt,
           resumed, fails, justPaused, fetching, notified,
           adopted >>

\* ------------------------------------------------------------------------
\* Records

NoRec == [status |-> "none", totalItems |-> Null, processedItems |-> 0,
          lastChunkId |-> 0, error |-> ""]

NoSession == [id |-> 0, status |-> "none", totalItems |-> Null,
              processedItems |-> 0, lastChunkId |-> 0, error |-> ""]

Cached(id, r) == [id |-> id, status |-> r.status, totalItems |-> r.totalItems,
                  processedItems |-> r.processedItems,
                  lastChunkId |-> r.lastChunkId, error |-> r.error]

NoUpd == [f |-> "none", status |-> "none", error |-> "", total |-> Null,
          processed |-> 0, last |-> 0]

UStatus(st, err) == [NoUpd EXCEPT !.f = "status", !.status = st, !.error = err]
UStatusOnly(st) == [NoUpd EXCEPT !.f = "statusOnly", !.status = st]
UTotal(t) == [NoUpd EXCEPT !.f = "total", !.total = t]
UProgress(p, c) == [NoUpd EXCEPT !.f = "progress", !.processed = p, !.last = c]

\* { ...session, ...updates } of updateSession
Merge(r, u) ==
  CASE u.f = "status" -> [r EXCEPT !.status = u.status, !.error = u.error]
    [] u.f = "statusOnly" -> [r EXCEPT !.status = u.status]
    [] u.f = "total" -> [r EXCEPT !.totalItems = u.total]
    [] u.f = "progress" -> [r EXCEPT !.processedItems = u.processed,
                                     !.lastChunkId = u.last]
    [] OTHER -> r

\* A call in progress: where it stands (pc), where it lives (home), what runs
\* after the current sub-call (cont, caller) and its locals.
Idle == [pc |-> "idle", home |-> "bag", cid |-> 0, cont |-> "none",
         caller |-> "none", sid |-> 0, astatus |-> "none", upd |-> NoUpd,
         rec |-> NoRec, n |-> 0, aborted |-> FALSE]

Min(a, b) == IF a < b THEN a ELSE b
Max(a, b) == IF a > b THEN a ELSE b

NonTerminal == {"initializing", "active", "paused"}

\* ------------------------------------------------------------------------
\* The state as one record, so that the synchronous calls compose

State == [sessions |-> sessions, chunks |-> chunks, session |-> session,
          pauseRequested |-> pauseRequested, retryCount |-> retryCount,
          pendingChunks |-> pendingChunks, activeDownload |-> activeDownload,
          downloadQueue |-> downloadQueue, processingQueue |-> processingQueue,
          chunkProcessors |-> chunkProcessors,
          isProcessingPaused |-> isProcessingPaused, fetchTask |-> fetchTask,
          chunkTask |-> chunkTask, tasks |-> tasks, chunkTimers |-> chunkTimers,
          fetchTimers |-> fetchTimers, reads |-> reads,
          pausedAt |-> pausedAt, resumed |-> resumed, fails |-> fails,
          justPaused |-> FALSE, fetching |-> fetching, notified |-> notified,
          adopted |-> adopted]

\* The dispatch rounds (checkAndProcessPendingChunks calls) in progress
Rounds(b) ==
  LET fs == {f \in BagToSet(b) : f.caller = "cap" \/ f.pc = "cap_get"}
  IN BagCardinality([f \in fs |-> b[f]])

Set(s) ==
  /\ Rounds(s.tasks) <= budget.rounds
  /\ sessions' = s.sessions
  /\ chunks' = s.chunks
  /\ session' = s.session
  /\ pauseRequested' = s.pauseRequested
  /\ retryCount' = s.retryCount
  /\ pendingChunks' = s.pendingChunks
  /\ activeDownload' = s.activeDownload
  /\ downloadQueue' = s.downloadQueue
  /\ processingQueue' = s.processingQueue
  /\ chunkProcessors' = s.chunkProcessors
  /\ isProcessingPaused' = s.isProcessingPaused
  /\ fetchTask' = s.fetchTask
  /\ chunkTask' = s.chunkTask
  /\ tasks' = s.tasks
  /\ chunkTimers' = s.chunkTimers
  /\ fetchTimers' = s.fetchTimers
  /\ reads' = s.reads
  /\ pausedAt' = s.pausedAt
  /\ resumed' = s.resumed
  /\ fails' = s.fails
  /\ justPaused' = s.justPaused
  /\ fetching' = s.fetching
  /\ notified' = s.notified
  /\ adopted' = s.adopted

\* The frame f becomes the current position of the call it belongs to.
PutFrame(s, f) ==
  CASE f.home = "chunk" -> [s EXCEPT !.chunkTask[f.cid] = f]
    [] f.home = "fetch" -> [s EXCEPT !.fetchTask = f]
    [] OTHER -> [s EXCEPT !.tasks = @ (+) SetToBag({f})]

\* ------------------------------------------------------------------------
\* DataTransferDatabase

\* The same query for the status active alone
getActiveOnly(s) ==
  LET live == {i \in 1..Len(s.sessions) : s.sessions[i].status = "active"}
  IN IF live = {} THEN 0 ELSE CHOOSE i \in live : \A j \in live : i <= j

\* getActiveSession: the first stored session that is not terminal, 0 if none
getActiveSession(s) ==
  LET live == {i \in 1..Len(s.sessions) : s.sessions[i].status \in NonTerminal}
  IN IF live = {} THEN 0 ELSE CHOOSE i \in live : \A j \in live : i <= j

\* getPendingChunks: the session's pending chunks, oldest first, at most limit
PendingIds(s, sid) ==
  {c \in 1..Len(s.chunks) :
     s.chunks[c].sessionId = sid /\ s.chunks[c].status = "pending"}

\* The same query without the filter on the status: the session's chunks of
\* any status, oldest first, at most limit
getChunksOfAnyStatus(s, sid, limit) ==
  LET ids == {c \in 1..Len(s.chunks) : s.chunks[c].sessionId = sid}
  IN {c \in ids : Cardinality({d \in ids : d < c}) < limit}

\* The same query sorted by creation time descending: newest first
getNewestPendingChunks(s, sid, limit) ==
  {c \in PendingIds(s, sid) :
     Cardinality({d \in PendingIds(s, sid) : d > c}) < limit}

getPendingChunks(s, sid, limit) ==
  {c \in PendingIds(s, sid) :
     Cardinality({d \in PendingIds(s, sid) : d < c}) < limit}

updateChunkStatus(s, c, st) == [s EXCEPT !.chunks[c].status = st]

\* ------------------------------------------------------------------------
\* DataTransferService: the synchronous parts

\* The body of processDownloadQueue's while loop up to fetchData's first
\* await; the loop's end runs its finally.
QueueLoop(s) ==
  IF Len(s.downloadQueue) > 0 /\ ~s.pauseRequested
  THEN [s EXCEPT !.downloadQueue = Tail(@),
                 !.activeDownload = TRUE,
                 !.fetching = @ + 1,
                 !.fetchTask = [Idle EXCEPT !.pc = "net", !.home = "fetch",
                                            !.n = Head(s.downloadQueue)]]
  ELSE [s EXCEPT !.processingQueue = FALSE, !.fetchTask = Idle]

\* processDownloadQueue without the test of processingQueue
processDownloadQueueReentrant(s) ==
  IF s.session.id = 0 \/ s.pauseRequested \/ s.activeDownload
  THEN s
  ELSE QueueLoop([s EXCEPT !.processingQueue = TRUE])

processDownloadQueue(s) ==
  IF s.processingQueue \/ s.session.id = 0 \/ s.pauseRequested
     \/ s.activeDownload
  THEN s
  ELSE QueueLoop([s EXCEPT !.processingQueue = TRUE])

enqueueFetch(s, skip) ==
  processDownloadQueue([s EXCEPT !.downloadQueue = Append(@, skip)])

\* fetchData returns: its finally, then the loop's next iteration
FetchReturn(s) ==
  QueueLoop([s EXCEPT !.activeDownload = FALSE, !.fetching = @ - 1])

\* activeDownload.abort(); activeDownload = null
AbortDownload(s) ==
  IF s.activeDownload
  THEN [s EXCEPT !.activeDownload = FALSE, !.fetchTask.aborted = TRUE]
  ELSE s

\* cleanup without pendingChunks.clear()
cleanupKeepsInFlight(s) ==
  AbortDownload([s EXCEPT !.pauseRequested = TRUE,
                          !.isProcessingPaused = TRUE,
                          !.retryCount = 0,
                          !.downloadQueue = << >>,
                          !.chunkProcessors = 0])

cleanup(s) ==
  AbortDownload([s EXCEPT !.pendingChunks = {},
                          !.pauseRequested = TRUE,
                          !.isProcessingPaused = TRUE,
                          !.retryCount = 0,
                          !.downloadQueue = << >>,
                          !.chunkProcessors = 0])

pauseProcessing(s) == [s EXCEPT !.isProcessingPaused = TRUE]

\* checkAndProcessPendingChunks after its completion check: the capacity
\* test, then the await of getPendingChunks
CapAfterCheck(s) ==
  IF Cardinality(s.pendingChunks) >= MAX_CONCURRENT_CHUNKS
     \/ MAX_CONCURRENT_CHUNKS - s.chunkProcessors <= 0
  THEN s
  ELSE PutFrame(s, [Idle EXCEPT !.pc = "cap_get", !.sid = s.session.id,
                                !.n = MAX_CONCURRENT_CHUNKS - s.chunkProcessors])

CheckFrame(arg, home, cid, caller) ==
  [Idle EXCEPT !.pc = "ctc_read", !.home = home, !.cid = cid,
               !.caller = caller, !.sid = arg.id, !.astatus = arg.status]

checkAndProcessPendingChunks(s) ==
  IF s.isProcessingPaused \/ s.session.id = 0 \/ s.pauseRequested
  THEN s
  ELSE IF s.session.totalItems = Null
       THEN CapAfterCheck(s)
       ELSE PutFrame(s, CheckFrame(s.session, "bag", 0, "cap"))

\* processChunk's finally
ProcessChunkFinally(s, c) ==
  checkAndProcessPendingChunks(
    [s EXCEPT !.chunkProcessors = @ - 1, !.chunkTask[c] = Idle])

\* What runs when checkIfTransferComplete returns to its caller
CheckReturn(s, f) ==
  CASE f.caller = "cap" -> CapAfterCheck(s)
    [] f.caller = "chunk" -> ProcessChunkFinally(s, f.cid)
    [] OTHER -> s

\* checkIfTransferComplete(arg) up to its first await
checkIfTransferComplete(s, arg, home, cid, caller) ==
  IF arg.totalItems = Null
  THEN CheckReturn(s, CheckFrame(arg, home, cid, caller))
  ELSE PutFrame(s, CheckFrame(arg, home, cid, caller))

resumeProcessing(s) ==
  IF s.isProcessingPaused
  THEN LET s1 == checkAndProcessPendingChunks(
                   [s EXCEPT !.isProcessingPaused = FALSE,
                             !.pauseRequested = FALSE])
       IN checkIfTransferComplete(s1, s1.session, "bag", 0, "none")
  ELSE s

\* db.updateSession is called: the read of the stored record; the write of
\* the merged record and the caller's continuation cont come later
UpdateCall(s, f, sid, upd, cont) ==
  PutFrame(s, [f EXCEPT !.pc = "uput", !.sid = sid, !.upd = upd,
                        !.cont = cont, !.rec = s.sessions[sid]])

\* events.onComplete is called with the session id
Notify(s, id) == [s EXCEPT !.notified = @ (+) SetToBag({id})]

\* updateSessionStatus after db.updateSession has returned `updated`
StatusTail(s, updated) ==
  LET s1 == [s EXCEPT !.session = updated]
      s2 == CASE updated.status = "active" ->
                   [s1 EXCEPT !.pauseRequested = FALSE,
                              !.isProcessingPaused = FALSE]
              [] updated.status = "paused" ->
                   [s1 EXCEPT !.isProcessingPaused = TRUE]
              [] OTHER -> s1
  IN IF updated.status = "completed" /\ onComplete
     THEN cleanup(Notify(s2, updated.id))
     ELSE s2

\* processChunk(c) up to processChunkDirectly's synthetic delay
processChunk(s, c) ==
  IF c \in s.pendingChunks \/ s.session.id = 0
  THEN s
  ELSE [updateChunkStatus(s, c, "processing") EXCEPT
          !.pendingChunks = @ \cup {c},
          !.chunkProcessors = @ + 1,
          !.chunkTask[c] = [Idle EXCEPT !.pc = "delay", !.home = "chunk",
                                        !.cid = c]]

RECURSIVE ProcessAll(_, _)
ProcessAll(s, cs) ==
  IF cs = {} THEN s
  ELSE LET c == CHOOSE x \in cs : \A y \in cs : x <= y
       IN ProcessAll(processChunk(s, c), cs \ {c})

\* ------------------------------------------------------------------------
\* The steps of the asynchronous calls.  Each takes the state without the
\* frame f it continues, and f.

PageLen(skip) == Min(PageSize, Max(0, srcTotal - skip))

\* init's resumption, reading from the start of the source
InitFromStart(s, processed) ==
  enqueueFetch(resumeProcessing([s EXCEPT !.pauseRequested = FALSE]), 0)

\* init after the stored session was adopted (and set active, if paused)
InitResume(s, processed) ==
  enqueueFetch(resumeProcessing([s EXCEPT !.pauseRequested = FALSE]),
               processed)

\* What follows db.updateSession in each caller
AfterUpdate(s, f, updated) ==
  CASE f.cont = "start" ->
         enqueueFetch(resumeProcessing(StatusTail(s, updated)), 0)
    [] f.cont = "pause" ->
         [StatusTail(s, updated) EXCEPT !.pausedAt = updated.processedItems,
                                        !.justPaused = TRUE]
    [] f.cont = "resume" ->
         LET s2 == resumeProcessing(StatusTail(s, updated))
         IN IF s2.session.lastChunkId # 0
            THEN PutFrame(s2, [f EXCEPT !.pc = "re_chunk"])
            ELSE enqueueFetch(s2, 0)
    [] f.cont = "cancel" -> cleanup(StatusTail(s, updated))
    [] f.cont = "init" -> InitResume([s EXCEPT !.session = updated], f.n)
    [] f.cont = "check" ->
         LET s2 == pauseProcessing(StatusTail(s, updated))
         IN CheckReturn(IF onComplete THEN Notify(s2, f.sid) ELSE s2, f)
    [] f.cont = "fetch_total" ->
         LET s2 == [s EXCEPT !.session = updated]
         IN PutFrame(s2, [f EXCEPT !.pc = IF PageLen(f.n) = 0
                                          THEN "empty" ELSE "add",
                                   !.sid = updated.id])
    [] f.cont = "fetch_done" -> FetchReturn(StatusTail(s, updated))
    [] f.cont = "result" ->
         checkIfTransferComplete([s EXCEPT !.session = updated], updated,
                                 "chunk", f.cid, "chunk")
    [] f.cont = "error" ->
         ProcessChunkFinally(cleanup(StatusTail(s, updated)), f.cid)
    [] OTHER -> s

\* db.updateSession: the write of the merged record, and the continuation
UpdateSessionPut(s, f) ==
  LET r == Merge(f.rec, f.upd)
  IN AfterUpdate([s EXCEPT !.sessions[f.sid] = r],
                 [f EXCEPT !.rec = NoRec, !.upd = NoUpd], Cached(f.sid, r))

\* checkIfTransferComplete after getPendingChunks(session.id, 1)
CheckPending(s, f) ==
  IF PendingIds(s, f.sid) = {} /\ s.pendingChunks = {}
  THEN UpdateCall(s, f, s.session.id, UStatus("completed", ""), "check")
  ELSE CheckReturn(s, f)

\* checkIfTransferComplete after getSession
CheckRead(s, f) ==
  LET fresh == s.sessions[f.sid]
  IN IF fresh.totalItems = Null THEN CheckReturn(s, f)
     ELSE IF fresh.processedItems >= fresh.totalItems
     THEN PutFrame(s, [f EXCEPT !.pc = "ctc_pending"])
     ELSE IF /\ Len(s.downloadQueue) = 0
             /\ ~s.activeDownload
             /\ s.pendingChunks = {}
             /\ s.chunkProcessors = 0
             /\ f.astatus = "active"
          THEN CheckReturn(enqueueFetch(s, fresh.processedItems), f)
          ELSE CheckReturn(s, f)

\* checkAndProcessPendingChunks after getPendingChunks
CapGet(s, f) == ProcessAll(s, getPendingChunks(s, f.sid, f.n))

\* handleChunkResult(c, true) through getChunk, updateChunkStatus and
\* getSession, up to the await of updateSession
handleChunkResult(s, f) ==
  LET currentSession == s.session
      fresh == s.sessions[currentSession.id]
      updatedProcessedItems == fresh.processedItems + s.chunks[f.cid].n
      finalCount == IF fresh.totalItems # Null
                    THEN Min(updatedProcessedItems, fresh.totalItems)
                    ELSE updatedProcessedItems
      s1 == [updateChunkStatus(s, f.cid, "completed") EXCEPT
               !.pendingChunks = @ \ {f.cid}]
  IN UpdateCall(s1, f, currentSession.id, UProgress(finalCount, f.cid),
                "result")

\* handleChunkError without the limit on the retries: every failure is
\* retried
handleChunkErrorUnlimited(s, f) ==
  LET s1 == [updateChunkStatus(s, f.cid, "failed") EXCEPT
               !.retryCount = @ + 1, !.fails[f.cid] = @ + 1]
  IN ProcessChunkFinally([s1 EXCEPT !.chunkTimers = @ \cup {f.cid}], f.cid)

\* handleChunkError through getChunk and updateChunkStatus
handleChunkError(s, f) ==
  LET s1 == [updateChunkStatus(s, f.cid, "failed") EXCEPT
               !.retryCount = @ + 1, !.fails[f.cid] = @ + 1]
  IN IF s1.retryCount < MAX_RETRIES
     THEN ProcessChunkFinally([s1 EXCEPT !.chunkTimers = @ \cup {f.cid}], f.cid)
     ELSE UpdateCall(s1, f, s1.session.id, UStatus("failed", "chunk"), "error")

\* fetchData with an empty page taken as a failure unless the total is reached
FetchEmptyIsFailure(s, f) ==
  LET cur == s.sessions[f.sid]
  IN IF cur.totalItems # Null /\ cur.processedItems >= cur.totalItems
     THEN UpdateCall(s, f, s.session.id, UStatus("completed", ""), "fetch_done")
     ELSE UpdateCall(s, f, s.session.id, UStatus("failed", "fetch"), "fetch_done")

\* fetchData with an empty page, after getSession
FetchEmpty(s, f) ==
  LET cur == s.sessions[f.sid]
  IN IF cur.totalItems # Null /\ cur.processedItems >= cur.totalItems
     THEN UpdateCall(s, f, s.session.id, UStatus("completed", ""), "fetch_done")
     ELSE IF cur.processedItems > 0
          THEN FetchReturn(enqueueFetch(s, cur.processedItems))
          ELSE FetchReturn(s)

\* fetchData that enqueues a next read after every page of items
FetchAddAlways(s, f) ==
  LET len == PageLen(f.n)
      s1 == [s EXCEPT !.chunks = Append(@, [sessionId |-> f.sid, skip |-> f.n,
                                            n |-> len, status |-> "pending"])]
  IN FetchReturn(checkAndProcessPendingChunks(enqueueFetch(s1, f.n + len)))

\* fetchData with a page of items, after addChunk and getSession
FetchAdd(s, f) ==
  LET len == PageLen(f.n)
      s1 == [s EXCEPT !.chunks = Append(@, [sessionId |-> f.sid, skip |-> f.n,
                                            n |-> len, status |-> "pending"])]
      cur == s1.sessions[s1.session.id]
      nextSkip == f.n + len
      s2 == IF cur.totalItems # Null
            THEN IF nextSkip >= cur.totalItems THEN s1
                 ELSE enqueueFetch(s1, nextSkip)
            ELSE IF len >= PageSize THEN enqueueFetch(s1, nextSkip) ELSE s1
  IN FetchReturn(checkAndProcessPendingChunks(s2))

\* ------------------------------------------------------------------------
\* Actions

ChunkIds == 1..MaxChunks

Frames == BagToSet(tasks) \cup {chunkTask[c] : c \in ChunkIds} \cup {fetchTask}

\* The state with the frame f taken out of the bag (a chunk's or the fetch
\* loop's frame is replaced in place by the step).
Take(f) ==
  IF f.home = "bag" THEN [State EXCEPT !.tasks = tasks (-) SetToBag({f})]
  ELSE State

BagFrame(pc) == [Idle EXCEPT !.pc = pc]

Spend(what) == budget' = [budget EXCEPT ![what] = @ - 1]

\* The caller of the service may issue a call: at any time when calls may
\* overlap, else once its previous call has returned and the constructor's
\* init has ended
MayCall ==
  \/ budget.overlap
  \/ \A f \in BagToSet(tasks) :
       /\ f.cont \notin {"start", "pause", "resume", "cancel", "init"}
       /\ f.pc \notin {"st_check", "st_create", "re_chunk", "in_read"}

Env == UNCHANGED << srcTotal, onComplete >>
Same == UNCHANGED << srcTotal, onComplete, budget >>

\* startTransfer is called: up to the await of getActiveSession
StartCall ==
  /\ budget.start > 0
  /\ MayCall
  /\ Spend("start") /\ Env
  /\ Set(PutFrame([State EXCEPT !.adopted = Null], BagFrame("st_check")))

\* startTransfer after getActiveSession: throw, or go on to createSession
StartCheck ==
  \E f \in BagToSet(tasks) :
    /\ f.pc = "st_check"
    /\ Same
    /\ IF getActiveSession(State) # 0
       THEN Set(Take(f))
       ELSE Set(PutFrame(Take(f), [f EXCEPT !.pc = "st_create"]))

\* startTransfer after createSession, up to the await in updateSessionStatus
StartCreate ==
  \E f \in BagToSet(tasks) :
    /\ f.pc = "st_create"
    /\ Len(sessions) < MaxSessions
    /\ Same
    /\ LET r == [NoRec EXCEPT !.status = "initializing"]
           id == Len(sessions) + 1
           s1 == [Take(f) EXCEPT !.sessions = Append(@, r),
                                 !.session = Cached(id, r)]
       IN Set(UpdateCall(s1, f, id, UStatus("active", ""), "start"))

\* pauseTransfer is called (without a session it returns null): up to the
\* await in updateSessionStatus
PauseCall ==
  /\ budget.pause > 0
  /\ MayCall
  /\ session.id # 0
  /\ Spend("pause") /\ Env
  /\ LET s1 == AbortDownload([pauseProcessing(State) EXCEPT
                                !.pauseRequested = TRUE])
         s2 == [s1 EXCEPT !.downloadQueue = << >>, !.resumed = FALSE,
                          !.adopted = Null]
     IN Set(UpdateCall(s2, BagFrame("uput"), s2.session.id,
                       UStatus("paused", ""), "pause"))

\* resumeTransfer's test of the cached session, without the test of its
\* status
resumeOfAnySession(s) == s.session.id # 0

\* resumeTransfer's test of the cached session
resumeAccepted(s) == s.session.id # 0 /\ s.session.status = "paused"

\* resumeTransfer is called on a paused session: up to the await in
\* updateSessionStatus
ResumeCall ==
  /\ budget.resume > 0
  /\ MayCall
  /\ resumeAccepted(State)
  /\ Spend("resume") /\ Env
  /\ Set(UpdateCall([State EXCEPT !.pauseRequested = FALSE,
                                  !.resumed = TRUE, !.adopted = Null],
                    BagFrame("uput"), session.id,
                    UStatus("active", ""), "resume"))

\* resumeTransfer is called without a paused session: it returns null
ResumeRejected ==
  /\ budget.resume > 0
  /\ MayCall
  /\ ~resumeAccepted(State)
  /\ Spend("resume") /\ Env
  /\ Set(State)

\* resumeTransfer after getChunk(lastChunkId)
ResumeChunk ==
  \E f \in BagToSet(tasks) :
    /\ f.pc = "re_chunk"
    /\ Same
    /\ Set(enqueueFetch(Take(f), session.processedItems))

\* cancelTransfer is called (without a session it returns): up to the await
\* in updateSessionStatus
CancelCall ==
  /\ budget.cancel > 0
  /\ MayCall
  /\ session.id # 0
  /\ Spend("cancel") /\ Env
  /\ LET s1 == AbortDownload([pauseProcessing(State) EXCEPT
                                !.pauseRequested = TRUE])
         s2 == [s1 EXCEPT !.downloadQueue = << >>, !.adopted = Null]
     IN Set(UpdateCall(s2, BagFrame("uput"), s2.session.id,
                       UStatus("failed", "cancelled"), "cancel"))

\* The page is loaded again: a new DataTransferService over the same store;
\* its constructor calls init, up to the await of getActiveSession
Restart ==
  /\ budget.restart > 0
  /\ Spend("restart") /\ Env
  /\ Set([State EXCEPT !.session = NoSession,
                       !.pauseRequested = FALSE,
                       !.retryCount = 0,
                       !.pendingChunks = {},
                       !.activeDownload = FALSE,
                       !.downloadQueue = << >>,
                       !.processingQueue = FALSE,
                       !.chunkProcessors = 0,
                       !.isProcessingPaused = FALSE,
                       !.fetchTask = Idle,
                       !.chunkTask = [c \in ChunkIds |-> Idle],
                       !.tasks = SetToBag({BagFrame("in_read")}),
                       !.chunkTimers = {},
                       !.fetchTimers = EmptyBag,
                       !.resumed = FALSE,
                       !.fetching = 0,
                       !.adopted = Null])

\* init after getActiveSession
InitRead ==
  \E f \in BagToSet(tasks) :
    /\ f.pc = "in_read"
    /\ Same
    /\ LET a == getActiveSession(State)
           s1 == [Take(f) EXCEPT !.session = Cached(a, sessions[a])]
       IN IF a = 0 THEN Set(Take(f))
          ELSE IF sessions[a].status = "paused"
          THEN Set(UpdateCall(s1, [f EXCEPT !.n = sessions[a].processedItems],
                              a, UStatusOnly("active"), "init"))
          ELSE IF sessions[a].status = "active"
          THEN Set(InitResume([s1 EXCEPT !.adopted = sessions[a].processedItems],
                              sessions[a].processedItems))
          ELSE Set(s1)

UpdatePut ==
  \E f \in Frames :
    /\ f.pc = "uput"
    /\ Same
    /\ Set(UpdateSessionPut(Take(f), f))

CompletionCheck ==
  \E f \in Frames :
    /\ f.pc = "ctc_read"
    /\ Same
    /\ Set(CheckRead(Take(f), f))

CompletionPending ==
  \E f \in Frames :
    /\ f.pc = "ctc_pending"
    /\ Same
    /\ Set(CheckPending(Take(f), f))

Dispatch ==
  \E f \in BagToSet(tasks) :
    /\ f.pc = "cap_get"
    /\ Same
    /\ Set(CapGet(Take(f), f))

\* processChunkDirectly after its synthetic delay: give up if a pause was
\* requested, else POST the chunk
UploadStart ==
  \E c \in ChunkIds :
    /\ chunkTask[c].pc = "delay"
    /\ Same
    /\ IF pauseRequested THEN Set(ProcessChunkFinally(State, c))
       ELSE Set([State EXCEPT !.chunkTask[c].pc = "post"])

\* The POST succeeded: handleChunkResult up to the await of updateSession
UploadOk ==
  \E c \in ChunkIds :
    /\ chunkTask[c].pc = "post"
    /\ Same
    /\ Set(handleChunkResult(State, chunkTask[c]))

\* The POST failed: handleChunkError up to its end, or up to the await in
\* updateSessionStatus
UploadFail ==
  \E c \in ChunkIds :
    /\ chunkTask[c].pc = "post"
    /\ budget.uploadFail > 0
    /\ Spend("uploadFail") /\ Env
    /\ Set(handleChunkError(State, chunkTask[c]))

\* handleChunkError's setTimeout callback
ChunkRetryTimer ==
  \E c \in chunkTimers :
    /\ Same
    /\ Set([updateChunkStatus(State, c, "pending") EXCEPT
              !.pendingChunks = @ \ {c},
              !.chunkTimers = @ \ {c}])

\* The cancelled fetchData, with the AbortError handled as any other error
FetchAbortedAsFailure ==
  /\ fetchTask.pc = "net"
  /\ fetchTask.aborted \/ pauseRequested \/ ~activeDownload
  /\ Same
  /\ LET s1 == [State EXCEPT !.retryCount = @ + 1]
     IN IF s1.retryCount < MAX_RETRIES
        THEN Set(FetchReturn([s1 EXCEPT !.fetchTimers =
                                          @ (+) SetToBag({fetchTask.n})]))
        ELSE Set(UpdateCall(s1, fetchTask, session.id,
                            UStatus("failed", "fetch"), "fetch_done"))

\* fetchData was cancelled during its synthetic delay (pauseRequested, or
\* activeDownload cleared) or its GET was aborted (AbortError): it returns
FetchAborted ==
  /\ fetchTask.pc = "net"
  /\ fetchTask.aborted \/ pauseRequested \/ ~activeDownload
  /\ Same
  /\ Set(FetchReturn(State))

\* The GET succeeded: up to the await of updateSession(totalItems)
FetchOk ==
  /\ fetchTask.pc = "net"
  /\ ~(fetchTask.aborted \/ pauseRequested \/ ~activeDownload)
  /\ Same
  /\ Set(UpdateCall([State EXCEPT !.reads = @ (+) SetToBag({fetchTask.n}),
                                   !.resumed = FALSE, !.adopted = Null],
                    fetchTask, session.id, UTotal(srcTotal), "fetch_total"))

\* The GET failed: retry later, or fail the session
FetchFail ==
  /\ fetchTask.pc = "net"
  /\ ~(fetchTask.aborted \/ pauseRequested \/ ~activeDownload)
  /\ budget.fetchFail > 0
  /\ Spend("fetchFail") /\ Env
  /\ LET s1 == [State EXCEPT !.retryCount = @ + 1,
                             !.reads = @ (+) SetToBag({fetchTask.n}),
                             !.resumed = FALSE, !.adopted = Null]
     IN IF s1.retryCount < MAX_RETRIES
        THEN Set(FetchReturn([s1 EXCEPT !.fetchTimers =
                                          @ (+) SetToBag({fetchTask.n})]))
        ELSE Set(UpdateCall(s1, fetchTask, session.id,
                            UStatus("failed", "fetch"), "fetch_done"))

\* fetchData's setTimeout callback
FetchRetryTimer ==
  \E k \in BagToSet(fetchTimers) :
    /\ Same
    /\ Set(enqueueFetch([State EXCEPT !.fetchTimers = @ (-) SetToBag({k})], k))

FetchEmptyPage ==
  /\ fetchTask.pc = "empty"
  /\ Same
  /\ Set(FetchEmpty(State, fetchTask))

FetchAddChunk ==
  /\ fetchTask.pc = "add"
  /\ Len(chunks) < budget.chunks
  /\ Same
  /\ Set(FetchAdd(State, fetchTask))

\* ------------------------------------------------------------------------
\* Specifications

NoBudget == [start |-> 0, pause |-> 0, resume |-> 0, cancel |-> 0,
             restart |-> 0, uploadFail |-> 0, fetchFail |-> 0, rounds |-> 1,
             chunks |-> MaxChunks, overlap |-> FALSE]

InitWith(totals, handlers, b) ==
  /\ sessions = << >>
  /\ chunks = << >>
  /\ session = NoSession
  /\ pauseRequested = FALSE
  /\ retryCount = 0
  /\ pendingChunks = {}
  /\ activeDownload = FALSE
  /\ downloadQueue = << >>
  /\ processingQueue = FALSE
  /\ chunkProcessors = 0
  /\ isProcessingPaused = FALSE
  /\ fetchTask = Idle
  /\ chunkTask = [c \in ChunkIds |-> Idle]
  /\ tasks = EmptyBag
  /\ chunkTimers = {}
  /\ fetchTimers = EmptyBag
  /\ srcTotal \in totals
  /\ onComplete \in handlers
  /\ budget = b
  /\ reads = EmptyBag
  /\ pausedAt = 0
  /\ resumed = FALSE
  /\ fails = [c \in ChunkIds |-> 0]
  /\ justPaused = FALSE
  /\ fetching = 0
  /\ notified = EmptyBag
  /\ adopted = Null

Engine ==
  \/ StartCheck \/ StartCreate
  \/ UpdatePut \/ CompletionCheck \/ CompletionPending \/ Dispatch
  \/ UploadStart \/ UploadOk
  \/ FetchOk \/ FetchAddChunk

\* One transfer, a source and a target that always succeed, no pause
InitHappy ==
  InitWith(1 .. MaxItems, {FALSE}, [NoBudget EXCEPT !.start = 1])
NextHappy == StartCall \/ Engine
SpecHappy == InitHappy /\ [][NextHappy]_vars

\* The same, with every continuation that is ready eventually run
FairHappy ==
  /\ SpecHappy
  /\ WF_vars(StartCall) /\ WF_vars(StartCheck) /\ WF_vars(StartCreate)
  /\ WF_vars(UpdatePut) /\ WF_vars(CompletionCheck)
  /\ WF_vars(CompletionPending) /\ WF_vars(Dispatch)
  /\ WF_vars(UploadStart) /\ WF_vars(UploadOk)
  /\ WF_vars(FetchOk) /\ WF_vars(FetchAddChunk)

\* Two chunks of one session, both POSTs sent and neither answered yet: the
\* state SpecHappy is in after both pages of a two-page source were stored
\* and dispatched.
TwoInFlight ==
  /\ sessions = << [NoRec EXCEPT !.status = "active",
                                 !.totalItems = srcTotal] >>
  /\ chunks = << [sessionId |-> 1, skip |-> 0, n |-> PageSize,
                  status |-> "processing"],
                 [sessionId |-> 1, skip |-> PageSize, n |-> srcTotal - PageSize,
                  status |-> "processing"] >>
  /\ session = Cached(1, sessions[1])
  /\ pendingChunks = {1, 2}
  /\ chunkProcessors = 2
  /\ chunkTask = [c \in ChunkIds |->
                   IF c \in {1, 2}
                   THEN [Idle EXCEPT !.pc = "post", !.home = "chunk", !.cid = c]
                   ELSE Idle]
  /\ reads = SetToBag({0, PageSize})
  /\ fetchTask = Idle /\ tasks = EmptyBag
  /\ pauseRequested = FALSE /\ isProcessingPaused = FALSE
  /\ activeDownload = FALSE /\ processingQueue = FALSE
  /\ downloadQueue = << >> /\ retryCount = 0
  /\ chunkTimers = {} /\ fetchTimers = EmptyBag
  /\ pausedAt = 0 /\ resumed = FALSE
  /\ fails = [c \in ChunkIds |-> 0]
  /\ justPaused = FALSE /\ fetching = 0 /\ adopted = Null
  /\ notified = EmptyBag

InitRace ==
  /\ srcTotal \in PageSize + 1 .. 2 * PageSize
  /\ onComplete = FALSE
  /\ budget = NoBudget
  /\ TwoInFlight
NextRace ==
  \/ UpdatePut \/ CompletionCheck \/ CompletionPending \/ Dispatch
  \/ UploadStart \/ UploadOk \/ FetchOk \/ FetchAddChunk
SpecRace == InitRace /\ [][NextRace]_vars

\* Up to MaxStarts calls of startTransfer, which may overlap, and a cancel,
\* over a one-page source
InitSessions ==
  InitWith({PageSize}, {FALSE},
           [NoBudget EXCEPT !.start = MaxStarts, !.cancel = 1,
                            !.overlap = TRUE, !.chunks = FewChunks])
NextSessions == StartCall \/ CancelCall \/ FetchAborted \/ Engine
SpecSessions == InitSessions /\ [][NextSessions]_vars

\* One transfer of a two-page source, paused and resumed up to MaxPauses times
InitPause ==
  InitWith({PageSize + 1}, {FALSE},
           [NoBudget EXCEPT !.start = 1, !.pause = MaxPauses,
                            !.resume = MaxPauses, !.chunks = MaxChunks - 1])
NextPause ==
  \/ StartCall \/ PauseCall \/ ResumeCall \/ ResumeChunk
  \/ FetchAborted \/ FetchEmptyPage \/ Engine
SpecPause == InitPause /\ [][NextPause]_vars

\* One transfer of a one-page source with up to MaxFailures failing uploads,
\* and either pauses and resumes or a reload of the page
FaultyBudgets ==
  { [NoBudget EXCEPT !.start = 1, !.pause = MaxPauses, !.resume = MaxPauses,
                     !.uploadFail = MaxFailures, !.chunks = FewChunks],
    [NoBudget EXCEPT !.start = 1, !.restart = 1,
                     !.uploadFail = MaxFailures, !.chunks = FewChunks] }
InitFaulty == \E b \in FaultyBudgets : InitWith({PageSize}, {FALSE}, b)
NextFaulty ==
  \/ StartCall \/ PauseCall \/ ResumeCall \/ ResumeChunk \/ Restart
  \/ InitRead \/ UploadFail \/ ChunkRetryTimer \/ FetchAborted
  \/ FetchEmptyPage \/ Engine
SpecFaulty == InitFaulty /\ [][NextFaulty]_vars

\* One transfer of a two-page source, paused once and not resumed, with
\* every continuation that is ready eventually run
InitPauseOnce ==
  InitWith({PageSize + 1}, {FALSE},
           [NoBudget EXCEPT !.start = 1, !.pause = 1, !.chunks = FewChunks])
NextPauseOnce == StartCall \/ PauseCall \/ FetchAborted \/ Engine
SpecPauseOnce == InitPauseOnce /\ [][NextPauseOnce]_vars
FairPauseOnce ==
  /\ SpecPauseOnce
  /\ WF_vars(StartCheck) /\ WF_vars(StartCreate) /\ WF_vars(UpdatePut)
  /\ WF_vars(CompletionCheck) /\ WF_vars(CompletionPending)
  /\ WF_vars(Dispatch) /\ WF_vars(UploadStart) /\ WF_vars(UploadOk)
  /\ WF_vars(FetchAborted) /\ WF_vars(FetchOk) /\ WF_vars(FetchAddChunk)

\* One transfer of a two-page source in which up to MAX_RETRIES uploads
\* fail, with every continuation and timer that is ready eventually run
InitRetry ==
  InitWith({PageSize + 1}, {FALSE},
           [NoBudget EXCEPT !.start = 1, !.uploadFail = MAX_RETRIES,
                            !.chunks = FewChunks])
NextRetry ==
  StartCall \/ UploadFail \/ ChunkRetryTimer \/ Engine
SpecRetry == InitRetry /\ [][NextRetry]_vars
FairRetry ==
  /\ SpecRetry
  /\ WF_vars(StartCheck) /\ WF_vars(StartCreate) /\ WF_vars(UpdatePut)
  /\ WF_vars(CompletionCheck) /\ WF_vars(CompletionPending)
  /\ WF_vars(Dispatch) /\ WF_vars(UploadStart) /\ WF_vars(UploadOk)
  /\ WF_vars(ChunkRetryTimer) /\ WF_vars(FetchOk) /\ WF_vars(FetchAddChunk)

\* One transfer of a two-page source that may be paused and is cancelled
InitCancel ==
  InitWith({PageSize + 1}, {FALSE},
           [NoBudget EXCEPT !.start = 1, !.pause = 1, !.cancel = 1,
                            !.chunks = FewChunks])
NextCancel == StartCall \/ PauseCall \/ CancelCall \/ FetchAborted \/ Engine
SpecCancel == InitCancel /\ [][NextCancel]_vars

\* One transfer of a two-page source on which pauseTransfer is called up to
\* MaxRepeats times, and resumeTransfer never
InitPauseTwice ==
  InitWith({PageSize + 1}, {FALSE},
           [NoBudget EXCEPT !.start = 1, !.pause = MaxRepeats,
                            !.chunks = FewChunks])
NextPauseTwice == StartCall \/ PauseCall \/ FetchAborted \/ Engine
SpecPauseTwice == InitPauseTwice /\ [][NextPauseTwice]_vars

\* One transfer of a two-page source, paused at most once, on which
\* resumeTransfer is called up to MaxRepeats times, in any state
InitAnyResume ==
  InitWith({PageSize + 1}, {FALSE},
           [NoBudget EXCEPT !.start = 1, !.pause = 1, !.resume = MaxRepeats,
                            !.chunks = FewChunks])
NextAnyResume ==
  \/ StartCall \/ PauseCall \/ ResumeCall \/ ResumeRejected \/ ResumeChunk
  \/ FetchAborted \/ Engine
SpecAnyResume == InitAnyResume /\ [][NextAnyResume]_vars

\* One transfer of a two-page source, and one reload of the page during it
InitReload ==
  InitWith({PageSize + 1}, {FALSE},
           [NoBudget EXCEPT !.start = 1, !.restart = 1, !.chunks = FewChunks])
NextReload == StartCall \/ Restart \/ InitRead \/ Engine
SpecReload == InitReload /\ [][NextReload]_vars

\* One transfer of a two-page source in which either up to MAX_RETRIES
\* source reads fail, or up to MaxFailures fail and the transfer may be
\* paused and resumed once
FetchFaultyBudgets ==
  { [NoBudget EXCEPT !.start = 1, !.fetchFail = MAX_RETRIES,
                     !.chunks = FewChunks],
    [NoBudget EXCEPT !.start = 1, !.pause = 1, !.resume = 1,
                     !.fetchFail = MaxFailures, !.chunks = FewChunks] }
InitFetchFaulty ==
  \E b \in FetchFaultyBudgets : InitWith({PageSize + 1}, {FALSE}, b)
NextFetchFaulty ==
  \/ StartCall \/ PauseCall \/ ResumeCall \/ ResumeChunk
  \/ FetchAborted \/ FetchFail \/ FetchRetryTimer \/ FetchEmptyPage \/ Engine
SpecFetchFaulty == InitFetchFaulty /\ [][NextFetchFaulty]_vars

\* One transfer of a source of MaxChunks full pages, with up to MaxRepeats
\* failing uploads
InitCap ==
  InitWith({PageSize * MaxChunks}, {FALSE},
           [NoBudget EXCEPT !.start = 1, !.uploadFail = MaxRepeats])
NextCap == StartCall \/ UploadFail \/ ChunkRetryTimer \/ Engine
SpecCap == InitCap /\ [][NextCap]_vars

\* Up to MaxStarts calls of startTransfer, each made after the call before it
\* has returned, and a cancel
InitSuccessive ==
  InitWith({PageSize}, {FALSE},
           [NoBudget EXCEPT !.start = MaxStarts, !.cancel = 1,
                            !.chunks = FewChunks])
NextSuccessive == StartCall \/ CancelCall \/ FetchAborted \/ Engine
SpecSuccessive == InitSuccessive /\ [][NextSuccessive]_vars

\* The only chunk of a one-page source is dispatched and in its delay before
\* the POST, and the read at skip 0 that the completion check of the
\* dispatch round has issued is outstanding: a state SpecHappy reaches
\* after the page was stored and dispatched.
OneInDelay ==
  /\ sessions = << [NoRec EXCEPT !.status = "active",
                                 !.totalItems = srcTotal] >>
  /\ chunks = << [sessionId |-> 1, skip |-> 0, n |-> PageSize,
                  status |-> "processing"] >>
  /\ session = Cached(1, sessions[1])
  /\ pendingChunks = {1}
  /\ chunkProcessors = 1
  /\ chunkTask = [c \in ChunkIds |->
                   IF c = 1
                   THEN [Idle EXCEPT !.pc = "delay", !.home = "chunk", !.cid = c]
                   ELSE Idle]
  /\ reads = SetToBag({0})
  /\ fetchTask = [Idle EXCEPT !.pc = "net", !.home = "fetch", !.n = 0]
  /\ tasks = EmptyBag
  /\ pauseRequested = FALSE /\ isProcessingPaused = FALSE
  /\ activeDownload = TRUE /\ processingQueue = TRUE
  /\ downloadQueue = << >> /\ retryCount = 0
  /\ chunkTimers = {} /\ fetchTimers = EmptyBag
  /\ pausedAt = 0 /\ resumed = FALSE
  /\ fails = [c \in ChunkIds |-> 0]
  /\ justPaused = FALSE /\ fetching = 1 /\ adopted = Null
  /\ notified = EmptyBag

\* From there the transfer may be paused once and is then resumed, with a
\* source and a target that always succeed; every continuation that is ready
\* is eventually run and a paused transfer is eventually resumed
InitPauseResume ==
  /\ srcTotal = PageSize
  /\ onComplete = FALSE
  /\ budget = [NoBudget EXCEPT !.pause = 1, !.resume = 1,
                               !.chunks = MaxChunks - 1]
  /\ OneInDelay
NextPauseResume ==
  \/ PauseCall \/ ResumeCall \/ ResumeChunk \/ FetchAborted
  \/ FetchEmptyPage \/ UpdatePut \/ CompletionCheck \/ CompletionPending \/ Dispatch
  \/ UploadStart \/ UploadOk \/ FetchOk \/ FetchAddChunk
SpecPauseResume == InitPauseResume /\ [][NextPauseResume]_vars
FairPauseResume ==
  /\ SpecPauseResume
  /\ WF_vars(ResumeCall) /\ WF_vars(ResumeChunk) /\ WF_vars(FetchAborted)
  /\ WF_vars(FetchEmptyPage) /\ WF_vars(UpdatePut)
  /\ WF_vars(CompletionCheck) /\ WF_vars(CompletionPending)
  /\ WF_vars(Dispatch) /\ WF_vars(UploadStart) /\ WF_vars(UploadOk)
  /\ WF_vars(FetchOk) /\ WF_vars(FetchAddChunk)

\* Both chunks of a transfer of a two-page source are being POSTed to a
\* target that does not answer during the run; the transfer may be cancelled
\* and a new transfer started, with room for MaxChunks chunks over both
\* sessions
InitRestarted ==
  /\ srcTotal \in PageSize + 1 .. 2 * PageSize
  /\ onComplete = FALSE
  /\ budget = [NoBudget EXCEPT !.start = MaxStarts, !.cancel = MaxRepeats]
  /\ TwoInFlight
NextRestarted ==
  \/ StartCall \/ StartCheck \/ StartCreate \/ CancelCall \/ FetchAborted
  \/ UpdatePut \/ CompletionCheck \/ Dispatch \/ UploadStart
  \/ FetchOk \/ FetchAddChunk
SpecRestarted == InitRestarted /\ [][NextRestarted]_vars

\* One transfer with an onComplete handler registered, a source and a target
\* that always succeed
InitNotify ==
  InitWith({PageSize, 2 * PageSize}, {TRUE}, [NoBudget EXCEPT !.start = 1])
NextNotify == StartCall \/ Engine
SpecNotify == InitNotify /\ [][NextNotify]_vars

\* One transfer in which every continuation of the service that is ready
\* eventually runs, while the source and the target need not ever answer:
\* the GET of fetchData and the POST of processChunkDirectly set no timer
FairUnanswered ==
  /\ SpecHappy
  /\ WF_vars(StartCall) /\ WF_vars(StartCheck) /\ WF_vars(StartCreate)
  /\ WF_vars(UpdatePut) /\ WF_vars(CompletionCheck)
  /\ WF_vars(CompletionPending) /\ WF_vars(Dispatch)
  /\ WF_vars(UploadStart) /\ WF_vars(FetchAddChunk)

\* ------------------------------------------------------------------------
\* Properties

\* handleChunkResult has written the progress of the completed chunk c
Applied(c) ==
  /\ c <= Len(chunks)
  /\ chunks[c].status = "completed"
  /\ ~(chunkTask[c].pc = "uput" /\ chunkTask[c].cont = "result")

\* C1: when two chunks of a session were uploaded in parallel and both
\* uploads succeeded, then once both completions have been applied the stored
\* processedItems has grown (from 0) by exactly the sum of the two chunks'
\* item counts, whatever the order of the handlers' store reads and writes.
C1_SumOfBoth ==
  (Applied(1) /\ Applied(2)) =>
     sessions[1].processedItems = chunks[1].n + chunks[2].n

\* C2: for every stored session whose totalItems is known, processedItems is
\* at most totalItems, in every reachable state.
C2_ProcessedAtMostTotal ==
  \A i \in 1..Len(sessions) :
     sessions[i].totalItems # Null =>
        sessions[i].processedItems <= sessions[i].totalItems

\* C3: the store never holds more than one session whose status is
\* initializing, active or paused, also when two start calls overlap.
C3_OneLiveSession ==
  Cardinality({i \in 1..Len(sessions) :
                 sessions[i].status \in NonTerminal}) <= 1

\* C4: once the stored status of a session is completed or failed, no step
\* changes it.
C4_TerminalStays ==
  [][\A i \in 1..Len(sessions) :
       sessions[i].status \in {"completed", "failed"} =>
          sessions'[i].status = sessions[i].status]_vars

\* C5: a chunk whose stored status is completed stays completed in every
\* step (it is never stored as pending or processing again), never re-enters
\* the in-flight set and never gets a new upload task, under failures,
\* retries, pauses, resumes and restarts.
C5_CompletedChunkStays ==
  [][\A c \in 1..Len(chunks) :
       chunks[c].status = "completed" =>
          /\ chunks'[c].status = "completed"
          /\ c \notin pendingChunks'
          /\ chunkTask'[c].pc \notin {"delay", "post"}]_vars

\* C5, its case: one chunk is completed while another chunk has failed and
\* its retry timer is armed.
C5_CompletedBesideRetry ==
  \E c, d \in 1..Len(chunks) :
     /\ chunks[c].status = "completed"
     /\ chunks[d].status = "failed"
     /\ d \in chunkTimers

\* Session i gets the stored status st in this step
Becomes(i, st) ==
  /\ i <= Len(sessions')
  /\ sessions'[i].status = st
  /\ i > Len(sessions) \/ sessions[i].status # st

\* C6: the stored status of a session becomes completed only in a state
\* where its totalItems is known, processedItems >= totalItems, no chunk of
\* the session is pending or processing in the store and none is in flight.
C6_CompletedOnlyWhenDone ==
  [][\A i \in 1..MaxSessions :
       Becomes(i, "completed") =>
          /\ sessions'[i].totalItems # Null
          /\ sessions'[i].processedItems >= sessions'[i].totalItems
          /\ \A c \in 1..Len(chunks') :
                chunks'[c].sessionId = i =>
                   chunks'[c].status \notin {"pending", "processing"}
          /\ pendingChunks' = {}]_vars

\* C7: when every source read and every upload succeeds and no pause or
\* cancel is issued, the started transfer over srcTotal items eventually has
\* the stored status completed with processedItems = srcTotal.  (A run that
\* is cut short by the model's bound on the number of chunks is set aside.)
C7_EventuallyCompleted ==
  <>(\/ /\ Len(sessions) >= 1
        /\ sessions[1].status = "completed"
        /\ sessions[1].processedItems = srcTotal
     \/ fetchTask.pc = "add" /\ Len(chunks) = MaxChunks)

\* C8: in a run without failures, pause, cancel or restart, the source is
\* read only at skip = 0, PageSize, 2*PageSize, ... below the total, each at
\* most once, and the k-th chunk is the k-th page.
C8_EachPageOnce ==
  /\ \A k \in BagToSet(reads) :
        k % PageSize = 0 /\ k < srcTotal /\ reads[k] = 1
  /\ \A c \in 1..Len(chunks) : chunks[c].skip = (c - 1) * PageSize

\* C9: the first source read that is served after an accepted resume() uses
\* skip equal to the processedItems the pause stored.
C9_ResumeFromProcessed ==
  [][\A k \in 0..(MaxItems + PageSize) :
       (resumed /\ reads' = reads (+) SetToBag({k})) => k = pausedAt]_vars

\* C10: when a session is completed, after any pause/resume round-trips,
\* every source offset below the total lies in a chunk of the session that
\* was uploaded successfully.
C10_NoRangeSkipped ==
  \A i \in 1..Len(sessions) :
     sessions[i].status = "completed" =>
        \A k \in 0..(srcTotal - 1) :
           \E c \in 1..Len(chunks) :
              /\ chunks[c].sessionId = i
              /\ chunks[c].status = "completed"
              /\ chunks[c].skip <= k
              /\ k < chunks[c].skip + chunks[c].n

\* C11: pauseTransfer drops the queued reads, and a chunk that is in the
\* in-flight set before a pause is requested is eventually stored completed
\* and out of the in-flight set, whether or not pauseTransfer is then called
\* (no upload fails under this specification).
C11_InFlightStillApplied ==
  /\ [][budget'.pause < budget.pause => downloadQueue' = << >>]_vars
  /\ \A c \in ChunkIds :
       [](c \in pendingChunks /\ ~pauseRequested
            => <>(/\ c <= Len(chunks)
                  /\ chunks[c].status = "completed"
                  /\ c \notin pendingChunks))

\* The uploads of chunk c, and of no other chunk, have failed, fewer than
\* MAX_RETRIES times
OnlyFailureFew(c) ==
  /\ fails[c] > 0 /\ fails[c] < MAX_RETRIES
  /\ \A d \in ChunkIds \ {c} : fails[d] = 0

\* C12: when the uploads of one chunk, and of no other, have failed fewer
\* than MAX_RETRIES times, no session is failed, and the chunk is eventually
\* stored completed unless a further upload fails.
C12_RetriedChunkCompletes ==
  \A c \in ChunkIds :
    /\ [](OnlyFailureFew(c) =>
           \A i \in 1..Len(sessions) : sessions[i].status # "failed")
    /\ [](OnlyFailureFew(c) =>
           <>(\/ c <= Len(chunks) /\ chunks[c].status = "completed"
              \/ ~OnlyFailureFew(c)))

\* C13: in the state in which handleChunkResult has stored a chunk as
\* completed, after its upload succeeded, the retry counter is zero.
C13_SuccessResetsRetries ==
  [][\A c \in 1..Len(chunks) :
       (chunks[c].status # "completed" /\ chunks'[c].status = "completed")
         => retryCount' = 0]_vars

\* C14: in a run in which the uploads of one chunk fail MAX_RETRIES times,
\* the session is at some time stored as failed with the error of the chunk
\* failure, whatever becomes of the other chunks.
C14_ExhaustedRetriesFail ==
  <>(\E c \in ChunkIds : fails[c] >= MAX_RETRIES) =>
    <>(\E i \in 1..Len(sessions) :
         sessions[i].status = "failed" /\ sessions[i].error = "chunk")

\* One chunk failed MAX_RETRIES times while another one was completed, and
\* the session is failed for it
C14_FailedBesideCompleted ==
  \E c, d \in 1..Len(chunks) :
    /\ fails[c] = MAX_RETRIES
    /\ chunks[d].status = "completed"
    /\ sessions[chunks[c].sessionId].status = "failed"
    /\ sessions[chunks[c].sessionId].error = "chunk"

\* The call of cancelTransfer whose updateSessionStatus is frame f returns
\* in this step
CancelReturns(f) ==
  /\ f.cont = "cancel"
  /\ CopiesIn(f, tasks') < CopiesIn(f, tasks)

\* C15: in the state in which a cancelTransfer that was called on an active
\* or paused session returns, the stored status of the session is failed
\* with the cancelled-by-user error, the read queue and the in-flight set are
\* empty, and no source read is outstanding.
C15_CancelLeavesNothing ==
  [][\A f \in BagToSet(tasks) :
       (CancelReturns(f) /\ f.rec.status \in {"active", "paused"}) =>
          /\ sessions'[f.sid].status = "failed"
          /\ sessions'[f.sid].error = "cancelled"
          /\ downloadQueue' = << >>
          /\ pendingChunks' = {}
          /\ activeDownload' = FALSE
          /\ fetchTask'.pc = "net" => fetchTask'.aborted \/ pauseRequested']_vars

\* pauseTransfer and then cancelTransfer were called and have returned, with
\* an upload still unanswered and no upload answered yet: the session is
\* stored as cancelled
C15_CancelledWhilePaused ==
  /\ budget.cancel = 0 /\ budget.pause = 0
  /\ \A f \in BagToSet(tasks) : f.cont \notin {"cancel", "pause"}
  /\ session.status = "failed" /\ session.error = "cancelled"
  /\ sessions[session.id].status = "failed"
  /\ \E c \in ChunkIds : chunkTask[c].pc = "post"
  /\ \A c \in 1..Len(chunks) : chunks[c].status # "completed"

\* The changes of a session's stored status that are allowed
StatusEdges ==
  { << "initializing", "active" >>, << "active", "paused" >>,
    << "paused", "active" >>, << "active", "completed" >>,
    << "active", "failed" >>, << "paused", "failed" >> }

\* C16: every change of the stored status of a session that is not terminal
\* follows one of the allowed edges; a paused session is never stored as
\* completed in one step.
C16_StatusFollowsEdges ==
  [][\A i \in 1..Len(sessions) :
       (sessions[i].status \in NonTerminal
          /\ sessions'[i].status # sessions[i].status)
         => << sessions[i].status, sessions'[i].status >> \in StatusEdges]_vars

\* A call of startTransfer gets the answer of getActiveSession in this step
StartAnswered ==
  CopiesIn(BagFrame("st_check"), tasks')
    < CopiesIn(BagFrame("st_check"), tasks)

\* C17: when startTransfer gets the answer of getActiveSession while a
\* session with status initializing, active or paused is stored, the call
\* ends there: it does not go on to createSession, and the stored sessions
\* and chunks, the cached session, the suspend flags, the read queue and the
\* in-flight set stay as they are.
C17_StartRejected ==
  [][(/\ StartAnswered
      /\ \E i \in 1..Len(sessions) : sessions[i].status \in NonTerminal)
      => /\ CopiesIn(BagFrame("st_create"), tasks')
              = CopiesIn(BagFrame("st_create"), tasks)
         /\ UNCHANGED << sessions, chunks, session, pauseRequested,
                         isProcessingPaused, downloadQueue, pendingChunks,
                         activeDownload, retryCount >>]_vars

\* Both calls of startTransfer have ended and one session, not terminal, is
\* stored: one of the calls was rejected
C17_OneStartRejected ==
  /\ budget.start = 0
  /\ \A f \in BagToSet(tasks) :
       f.pc \notin {"st_check", "st_create"} /\ f.cont # "start"
  /\ Len(sessions) = 1
  /\ sessions[1].status \in NonTerminal

\* C18: a pauseTransfer that is called in the state in which the previous
\* pauseTransfer returned changes, at the call, neither the stored sessions
\* nor the suspend flags, the read queue or the in-flight set.
C18_SecondPauseNoOp ==
  [][(justPaused /\ budget'.pause < budget.pause) =>
       UNCHANGED << sessions, pauseRequested, isProcessingPaused,
                    downloadQueue, pendingChunks >>]_vars

\* C19: a call of resumeTransfer when the cached session is absent or not
\* paused changes nothing: no stored session or chunk, no field of the
\* service, no call in progress, no timer.
C19_ResumeRejectedNoOp ==
  [][(/\ budget'.resume < budget.resume
      /\ ~(session.id # 0 /\ session.status = "paused"))
      => UNCHANGED << sessions, chunks, session, pauseRequested, retryCount,
                      pendingChunks, activeDownload, downloadQueue,
                      processingQueue, chunkProcessors, isProcessingPaused,
                      fetchTask, chunkTask, tasks, chunkTimers,
                      fetchTimers >>]_vars

\* resumeTransfer was called MaxRepeats times on a session that was never
\* paused and is active with an upload in flight
C19_ResumeOfActive ==
  /\ budget.resume = 0 /\ budget.pause = 1
  /\ session.status = "active"
  /\ \E c \in ChunkIds : chunkTask[c].pc = "post"

C21_AbortIsNoFailure ==
  [][(fetchTask.pc = "net" /\ fetchTask.aborted /\ fetchTask' # fetchTask)
       => /\ retryCount' = retryCount
          /\ fetchTimers' = fetchTimers
          /\ sessions' = sessions
          /\ ~(fetchTask'.pc = "uput" /\ fetchTask'.upd.status = "failed")
    ]_vars

\* A read failed once and its retry was started and then aborted by
\* pauseTransfer: the session is paused, the retry counter is still 1, no
\* retry is scheduled or queued, and no fetchData is in progress
C21_RetryAbortedByPause ==
  /\ budget.fetchFail = 0 /\ budget.pause = 0 /\ budget.resume = 1
  /\ session.status = "paused"
  /\ retryCount = 1
  /\ BagCardinality(reads) = 1
  /\ fetchTimers = EmptyBag /\ downloadQueue = << >>
  /\ fetching = 0

\* C22: a source read that fails with the retry counter under MAX_RETRIES is
\* scheduled again at the same skip; and in the state in which a session is
\* stored as failed for a source read, the read queue and the in-flight set
\* are empty.
C22_FetchFailureClears ==
  /\ [][(fetchTask.pc = "net" /\ retryCount' = retryCount + 1
          /\ retryCount' < MAX_RETRIES)
         => fetchTimers' = fetchTimers (+) SetToBag({fetchTask.n})]_vars
  /\ [][\A i \in 1..Len(sessions) :
          (sessions[i].error # "fetch" /\ sessions'[i].error = "fetch")
            => /\ sessions'[i].status = "failed"
               /\ downloadQueue' = << >>
               /\ pendingChunks' = {}]_vars

\* C23: no step lowers the stored processedItems of a session that is active
\* before and after the step.
C23_ProcessedNeverDecreases ==
  [][\A i \in 1..Len(sessions) :
       (sessions[i].status = "active" /\ sessions'[i].status = "active")
         => sessions'[i].processedItems >= sessions[i].processedItems]_vars


\* C24: while the dispatcher is paused (pause() was called and no resume
\* has cleared the request), no step moves a chunk from pending to
\* processing, adds a chunk to the in-flight set or starts a POST; this
\* includes the dispatch round whose read of pending chunks was under way
\* when pause() was called.
C24_PausedDispatchesNothing ==
  [][(pauseRequested /\ pauseRequested')
       => /\ \A c \in 1..Len(chunks) :
               ~(chunks[c].status = "pending" /\ chunks'[c].status = "processing")
          /\ pendingChunks' \subseteq pendingChunks
          /\ \A c \in ChunkIds :
               chunkTask'[c].pc = "post" => chunkTask[c].pc = "post"]_vars


\* C25: in every reachable state the in-flight set holds at most
\* MAX_CONCURRENT_CHUNKS chunk ids, also while a failed chunk waits out its
\* retry delay.
C25_InFlightAtMostCap == Cardinality(pendingChunks) <= MAX_CONCURRENT_CHUNKS


\* C26: at most one call of fetchData, and so at most one source read, is
\* outstanding in every reachable state.
C26_OneReadOutstanding == fetching <= 1

\* A resume has queued a read while the read aborted by the pause before it
\* has not returned yet: only processingQueue keeps the new read waiting.
C26_ReadQueuedBehindAborted ==
  /\ fetching = 1
  /\ fetchTask.pc = "net" /\ fetchTask.aborted
  /\ ~activeDownload /\ ~pauseRequested
  /\ processingQueue
  /\ Len(downloadQueue) > 0


\* The retry timer of the failed chunk c has fired: c is stored pending and
\* is out of the in-flight set
RetryDue(c) ==
  /\ c <= Len(chunks)
  /\ fails[c] > 0
  /\ chunks[c].status = "pending"
  /\ c \notin pendingChunks

\* C27: the retry timer of a failed chunk stores the chunk as pending and
\* takes it out of the in-flight set, and from then on the chunk is
\* eventually dispatched again unless its session stops being active; this
\* holds also when no other chunk is in flight and no source read is queued
\* or outstanding.
C27_RetryDispatchedAgain ==
  /\ [][\A c \in chunkTimers :
          c \notin chunkTimers'
            => chunks'[c].status = "pending" /\ c \notin pendingChunks']_vars
  /\ \A c \in ChunkIds :
       RetryDue(c) ~>
         /\ c <= Len(chunks)
         /\ \/ c \in pendingChunks /\ chunks[c].status = "processing"
            \/ sessions[chunks[c].sessionId].status # "active"


\* The session i is the service's session, is stored active with its total
\* known and not reached, and no source read is outstanding or queued and no
\* chunk is in flight
Stalled(i) ==
  /\ i <= Len(sessions) /\ session.id = i
  /\ sessions[i].status = "active"
  /\ sessions[i].totalItems # Null
  /\ sessions[i].processedItems < sessions[i].totalItems
  /\ fetching = 0 /\ ~activeDownload
  /\ Len(downloadQueue) = 0
  /\ pendingChunks = {}

\* C28: a session that is stalled in active does not stay so for ever: a
\* source read is eventually issued, unless the session stops being active
\* or reaches its total first.
C28_StallRecovered ==
  \A i \in 1..MaxSessions :
    Stalled(i) ~> \/ fetching > 0
                  \/ /\ i <= Len(sessions)
                     /\ \/ sessions[i].status # "active"
                        \/ sessions[i].processedItems >= sessions[i].totalItems


\* C29: updateSession calls that write different fields both take effect:
\* the write that lands second keeps the field the first has written, so no
\* step changes both the stored status and the stored progress
\* (processedItems, lastChunkId) of a session, which no call writes
\* together.
C29_BothWritesKept ==
  [][\A i \in 1..Len(sessions) :
       sessions'[i].status # sessions[i].status
         => /\ sessions'[i].processedItems = sessions[i].processedItems
            /\ sessions'[i].lastChunkId = sessions[i].lastChunkId]_vars


\* C30: the progress of a session is written only by results of its own
\* chunks: the lastChunkId stored with a session's processedItems names a
\* chunk of that session, also when an upload of a chunk of an earlier,
\* cancelled session resolves after a new session was started.
C30_ProgressFromOwnChunks ==
  \A i \in 1..Len(sessions) :
    sessions[i].lastChunkId # 0
      => chunks[sessions[i].lastChunkId].sessionId = i

\* C31: every chunk that enters the in-flight set eventually leaves it, and
\* a chunk stored as processing is eventually stored with another status,
\* unless a pause is still requested: no chunk stays in flight, or stored as
\* processing, for ever once the session has been resumed, also when
\* pause() was called while the chunk was in flight.
C31_InFlightEventuallyLeaves ==
  \A c \in ChunkIds :
    /\ []<>(c \notin pendingChunks \/ pauseRequested)
    /\ []<>(\/ c > Len(chunks)
            \/ chunks[c].status # "processing"
            \/ pauseRequested)

\* A call of fetchData starts in this step
ReadStarts ==
  /\ fetchTask' # fetchTask
  /\ fetchTask'.pc = "net"
  /\ ~fetchTask'.aborted

\* C32: once the service's session is stored as completed or failed, no
\* source read is started and none of its chunks is moved to processing or
\* POSTed, also when a retry timer fires after the terminal status was
\* stored.
C32_TerminalStopsWork ==
  [][\A i \in 1..Len(sessions) :
       (session.id = i /\ sessions[i].status \in {"completed", "failed"})
         => /\ ~ReadStarts
            /\ \A c \in 1..Len(chunks) :
                 chunks[c].sessionId = i
                   => /\ ~(/\ chunks[c].status = "pending"
                           /\ chunks'[c].status = "processing")
                      /\ chunkTask'[c].pc = "post" => chunkTask[c].pc = "post"]_vars

\* C33: the first source read served after an accepted resume() returns no
\* range that a pending or in-flight chunk of the session already holds, so
\* that no source item is uploaded twice.
C33_ResumeRefetchesNothing ==
  [][\A k \in 0..(MaxItems + PageSize) :
       (resumed /\ reads' = reads (+) SetToBag({k}) /\ PageLen(k) > 0)
         => \A c \in 1..Len(chunks) :
              (/\ chunks[c].sessionId = session.id
               /\ chunks[c].status \in {"pending", "processing"})
                => (k < chunks[c].skip \/ k >= chunks[c].skip + chunks[c].n)]_vars

\* The reads that are queued or were started by this step, as a bag of skips
BagOfSeq(q) ==
  [k \in {q[j] : j \in DOMAIN q} |-> Cardinality({j \in DOMAIN q : q[j] = k})]

C36_OldestPendingFirst ==
  [][\A c \in 1..Len(chunks) :
       (chunks[c].status = "pending" /\ chunks'[c].status = "processing")
         => \A d \in 1..(c - 1) :
              (/\ chunks[d].sessionId = chunks[c].sessionId
               /\ chunks[d].status = "pending")
                => chunks'[d].status = "processing"]_vars

\* A round with room for one chunk has taken the older of two pending
\* chunks: chunk 1 is dispatched again after its retry delay while the newer
\* chunk 4, never dispatched, is left pending
C36_OlderTakenNewerLeft ==
  /\ Len(chunks) = MaxChunks
  /\ fails[1] > 0 /\ chunks[1].status = "processing"
  /\ chunkTask[1].pc = "delay"
  /\ chunks[MaxChunks].status = "pending" /\ fails[MaxChunks] = 0
  /\ Cardinality(pendingChunks) = MAX_CONCURRENT_CHUNKS

\* The chunks whose POST is sent and not answered
Uploading == {c \in ChunkIds : chunkTask[c].pc = "post"}

\* C37: at most MAX_CONCURRENT_CHUNKS uploads are outstanding in every
\* reachable state, also when a cancel has reset the dispatcher's counters
\* while uploads were running and a new transfer was started.
C37_UploadsAtMostCap == Cardinality(Uploading) <= MAX_CONCURRENT_CHUNKS

\* C38: for each session events.onComplete is called at most once, and only
\* when the stored status of that session is completed, also when several
\* completion checks run at the same time.
C38_CompletedNotifiedOnce ==
  \A i \in BagToSet(notified) :
    /\ notified[i] <= 1
    /\ sessions[i].status = "completed"

\* The handler has been called for a session that is stored completed.
C38_CompletionNotified ==
  \E i \in BagToSet(notified) : sessions[i].status = "completed"

\* C39: a source read or a target upload that receives no response is
\* eventually ended, so no call stays outstanding for ever and an active
\* session does not stay without progress for ever.
C39_UnansweredCallEnded ==
  /\ []<>(fetchTask.pc # "net")
  /\ \A c \in ChunkIds : []<>(chunkTask[c].pc # "post")

====
